---- MODULE Spec2Model ----
(***************************************************************************)
(* Sweep-and-prune collision core of sapark (src/main.go).                 *)
(*                                                                         *)
(* One tick of Game.Update is modelled as a sequence of steps: the spawn   *)
(* and reset (UpdateBegin), one iteration of the motion/clamp/interval     *)
(* loop per body (BuildStep), the sort (SortIntervals), and the sweep:     *)
(* one narrow-phase test per member of the active list (PairTest), the     *)
(* insertion that follows a Left endpoint (ActiveInsert), the removal of a *)
(* Right endpoint (ActiveRemove), and the return (UpdateReturn).           *)
(*                                                                         *)
(* Numbers.  The program computes in float64.  Every coordinate here is an *)
(* integer count of 1/2^FracBits units.  The only operations the code      *)
(* applies are +, -, min, max, abs, comparison and division by 2, all of   *)
(* which float64 performs exactly on dyadic values of this size, so the    *)
(* fixed-point arithmetic below is the program's arithmetic on these       *)
(* inputs.  A halving that would need more than FracBits binary places is  *)
(* not taken (Halvable); PrecisionSuffices states that this never happens. *)
(*                                                                         *)
(* Scale.  Objects, IncrementObject and MaxPossibleObject keep their roles *)
(* but are scaled down (1000, 100, 10000 in the source) so that the        *)
(* population can exceed the pre-allocated active list within a few ticks, *)
(* as repeated presses of KeyA allow in the program.                       *)
(***************************************************************************)
EXTENDS Integers, Sequences, FiniteSets, TLC

\* ---------------------------------------------------------------- bounds
\* Number of ticks explored.
MaxTicks == 2
\* Binary places kept after the point.
FracBits == 16

U == 2 ^ FracBits
\* Half a unit of length: spawn values are given in halves.
Hf == U \div 2

\* ------------------------------------------------------------- constants
Objects == 2
MaxPossibleObject == 2
IncrementObject == 1
ScreenWidth == 900
ScreenHeight == 800

\* g.w, g.h (NewGame), in fixed-point units.
GameW == ScreenWidth * U
GameH == ScreenHeight * U

\* --------------------------------------------------------------- helpers
Abs(x) == IF x < 0 THEN -x ELSE x
Min(a, b) == IF a < b THEN a ELSE b
Max(a, b) == IF a > b THEN a ELSE b

\* One entity's components: Rect, Velocity, Collision.
Body(x, y, w, h, vx, vy) ==
    [rect |-> [X |-> x * Hf, Y |-> y * Hf, W |-> w * Hf, H |-> h * Hf],
     vel  |-> [X |-> vx * Hf, Y |-> vy * Hf],
     coll |-> [IsColliding |-> FALSE]]

\* The values the random draws of a new entity range over (arguments in
\* halves): W, H in [2, 20), X in [0, g.w - W), Y in [0, g.h - H), velocity
\* components in [-1, 1).  A small set of such draws, chosen so that bodies
\* meet each other and the four screen edges within the first ticks.  After
\* the first motion step their rectangles are, in order:
\*   [0,4]x[0,4] (pinned to the left and top edges), [4,8]x[1,3],
\*   [2,6]x[1,5], [2,10]x[1,9], [3.5,7.5]x[3,7], and [896,900]x[796,800]
\*   (pinned to the right and bottom edges).
NewEntity ==
    { Body(2, 2, 8, 8, -2, -2),
      Body(8, 2, 8, 4, 0, 0),
      Body(4, 2, 8, 8, 0, 0),
      Body(4, 2, 16, 16, 0, 0),
      Body(6, 6, 8, 8, 1, 0),
      Body(1791, 1591, 8, 8, 1, 1) }

VARIABLES
    bodies,      \* the world's entities, in query order: Rect, Velocity, Collision
    intervals,   \* g.intervals
    activeList,  \* g.activeList, all MaxPossibleObject slots
    activeLen,   \* g.activeLen
    pc,          \* position of Update: "idle" (between ticks), "build", "sort", "sweep"
    q,           \* query cursor of the build loop: next entity
    k,           \* sweep cursor: index of the interval being processed
    i,           \* inner loop counter over the active list (0-based, as in the code)
    tick,        \* completed ticks
    tested,      \* history: the pairs <<e1, e2>> Y-tested so far in this tick, in order
    confirmed,   \* history: the pairs whose flags lines 172-173 set in this tick
    pre,         \* history: the bodies as they were when the intervals were sorted
    rand,        \* the random source: the draws it has not delivered yet
    flaggedBefore \* history: the entities whose flag was set when this tick began

vars == <<bodies, intervals, activeList, activeLen, pc, q, k, i, tick,
          tested, confirmed, pre, rand, flaggedBefore>>

Entities == 1 .. Len(bodies)

\* The zero ecs.Entity, the content of a slot never written.
NoEntity == 0

\* ------------------------------------------------------------- NewGame
\* A batch of n new entities: the random source delivers each of its draws
\* once (two draws of a continuous source do not coincide).
Batches(n, source) ==
    { b \in [1 .. n -> source] : \A x, y \in 1 .. n : b[x] = b[y] => x = y }

Init ==
    /\ bodies \in Batches(Objects, NewEntity)
    /\ rand = NewEntity \ { bodies[n] : n \in 1 .. Objects }
    /\ intervals = << >>
    /\ activeList = [s \in 1 .. MaxPossibleObject |-> NoEntity]
    /\ activeLen = 0
    /\ pc = "idle"
    /\ q = 1
    /\ k = 1
    /\ i = 0
    /\ tick = 0
    /\ tested = << >>
    /\ confirmed = << >>
    /\ pre = bodies
    /\ flaggedBefore = {}

\* ------------------------------------------------- Update: spawn and reset
\* A start of tick that does not truncate the endpoint list.
UpdateBeginKeepsIntervals ==
    /\ pc = "idle"
    /\ tick < MaxTicks
    /\ \E keyA \in BOOLEAN :
         IF keyA
         THEN \E batch \in Batches(IncrementObject, rand) :
                /\ bodies' = bodies \o batch
                /\ rand' = rand \ { batch[n] : n \in 1 .. IncrementObject }
         ELSE UNCHANGED <<bodies, rand>>
    /\ activeLen' = 0
    /\ pc' = "build"
    /\ q' = 1
    /\ tested' = << >>
    /\ confirmed' = << >>
    /\ flaggedBefore' = { e \in Entities : bodies[e].coll.IsColliding }
    /\ UNCHANGED <<intervals, activeList, k, i, tick, pre>>

UpdateBegin ==
    /\ pc = "idle"
    /\ tick < MaxTicks
    /\ \E keyA \in BOOLEAN :
         IF keyA
         THEN \E batch \in Batches(IncrementObject, rand) :
                /\ bodies' = bodies \o batch
                /\ rand' = rand \ { batch[n] : n \in 1 .. IncrementObject }
         ELSE UNCHANGED <<bodies, rand>>
    /\ intervals' = << >>
    /\ activeLen' = 0
    /\ pc' = "build"
    /\ q' = 1
    /\ tested' = << >>
    /\ confirmed' = << >>
    /\ flaggedBefore' = { e \in Entities : bodies[e].coll.IsColliding }
    /\ UNCHANGED <<activeList, k, i, tick, pre>>

\* ------------------------------------------ handleScreenBoundaryCollision
\* A horizontal clamp that pins the left edge, not the right edge, to the bound.
ClampXLeftEdgeAtBound(b, screenWidth) ==
    IF b.rect.X <= 0
    THEN [b EXCEPT !.rect.X = 0, !.vel.X = Abs(b.vel.X)]
    ELSE IF b.rect.X + b.rect.W >= screenWidth
         THEN [b EXCEPT !.rect.X = screenWidth, !.vel.X = -Abs(b.vel.X)]
         ELSE b

ClampX(b, screenWidth) ==
    IF b.rect.X <= 0
    THEN [b EXCEPT !.rect.X = 0, !.vel.X = Abs(b.vel.X)]
    ELSE IF b.rect.X + b.rect.W >= screenWidth
         THEN [b EXCEPT !.rect.X = screenWidth - b.rect.W, !.vel.X = -Abs(b.vel.X)]
         ELSE b

\* A vertical clamp that pins the body but leaves its velocity as it was.
ClampYKeepsVelocity(b, screenHeight) ==
    IF b.rect.Y <= 0
    THEN [b EXCEPT !.rect.Y = 0]
    ELSE IF b.rect.Y + b.rect.H >= screenHeight
         THEN [b EXCEPT !.rect.Y = screenHeight - b.rect.H]
         ELSE b

ClampY(b, screenHeight) ==
    IF b.rect.Y <= 0
    THEN [b EXCEPT !.rect.Y = 0, !.vel.Y = Abs(b.vel.Y)]
    ELSE IF b.rect.Y + b.rect.H >= screenHeight
         THEN [b EXCEPT !.rect.Y = screenHeight - b.rect.H, !.vel.Y = -Abs(b.vel.Y)]
         ELSE b

handleScreenBoundaryCollision(b, screenWidth, screenHeight) ==
    ClampY(ClampX(b, screenWidth), screenHeight)

\* ------------------------------------ Update: motion, clamp, interval pair
Advance(b) ==
    [b EXCEPT !.rect.X = b.rect.X + b.vel.X, !.rect.Y = b.rect.Y + b.vel.Y]

Interval(x, isLeft, e) == [Xaxis |-> x, IsLeftEdge |-> isLeft, Entity |-> e]

\* A build step that forgets to reset the collision flag.
BuildStepKeepsFlag ==
    /\ pc = "build"
    /\ q <= Len(bodies)
    /\ LET b == handleScreenBoundaryCollision(Advance(bodies[q]), GameW, GameH)
           c == b
       IN /\ bodies' = [bodies EXCEPT ![q] = c]
          /\ intervals' = intervals \o
                 << Interval(c.rect.X, TRUE, q),
                    Interval(c.rect.X + c.rect.W, FALSE, q) >>
    /\ q' = q + 1
    /\ pc' = IF q = Len(bodies) THEN "sort" ELSE "build"
    /\ UNCHANGED <<activeList, activeLen, k, i, tick, tested, confirmed, pre, rand, flaggedBefore>>

BuildStep ==
    /\ pc = "build"
    /\ q <= Len(bodies)
    /\ LET b == handleScreenBoundaryCollision(Advance(bodies[q]), GameW, GameH)
           c == [b EXCEPT !.coll.IsColliding = FALSE]
       IN /\ bodies' = [bodies EXCEPT ![q] = c]
          /\ intervals' = intervals \o
                 << Interval(c.rect.X, TRUE, q),
                    Interval(c.rect.X + c.rect.W, FALSE, q) >>
    /\ q' = q + 1
    /\ pc' = IF q = Len(bodies) THEN "sort" ELSE "build"
    /\ UNCHANGED <<activeList, activeLen, k, i, tick, tested, confirmed, pre, rand, flaggedBefore>>

\* ------------------------------------------------------- Update: the sort
\* The comparator handed to sort.Slice.
Less(a, b) == a.Xaxis < b.Xaxis

Range(s) == { s[n] : n \in DOMAIN s }

\* sort.Slice is not stable: the result is some ordering of the same
\* intervals in which no element is Less than an earlier one; intervals of
\* equal Xaxis may come out in any order.
RECURSIVE SortedOrders(_)
SortedOrders(S) ==
    IF S = {} THEN { << >> }
    ELSE UNION { { <<m>> \o rest : rest \in SortedOrders(S \ {m}) } :
                 m \in { m \in S : \A o \in S : ~Less(o, m) } }

SortIntervals ==
    /\ pc = "sort"
    /\ intervals' \in SortedOrders(Range(intervals))
    /\ pc' = "sweep"
    /\ k' = 1
    /\ i' = 0
    /\ pre' = bodies
    /\ UNCHANGED <<bodies, activeList, activeLen, q, tick, tested, confirmed, rand, flaggedBefore>>

\* ------------------------------------------- Update: narrow phase, response
\* AABB overlap test (the Y test of the sweep).
AABBOverlap(r1, r2) == r1.Y < r2.Y + r2.H /\ r1.Y + r1.H > r2.Y

OverlapX(r1, r2) == Min(r1.X + r1.W, r2.X + r2.W) - Max(r1.X, r2.X)
OverlapY(r1, r2) == Min(r1.Y + r1.H, r2.Y + r2.H) - Max(r1.Y, r2.Y)

\* Determine separation direction.
SeparateOnX(r1, r2) == OverlapX(r1, r2) < OverlapY(r1, r2)

\* The overlap/2 of the branch taken is exact in FracBits binary places.
Halvable(r1, r2) ==
    IF SeparateOnX(r1, r2) THEN OverlapX(r1, r2) % 2 = 0
                           ELSE OverlapY(r1, r2) % 2 = 0

\* c1.IsColliding = true; c2.IsColliding = true
Mark(b) == [b EXCEPT !.coll.IsColliding = TRUE]

\* A separation on X that moves only the first body of the pair.
SeparateXMovesFirstOnly(b1, b2) ==
    LET overlapX == OverlapX(b1.rect, b2.rect)
    IN IF b1.rect.X < b2.rect.X
       THEN << [b1 EXCEPT !.rect.X = b1.rect.X - overlapX \div 2, !.vel.X = b2.vel.X],
               [b2 EXCEPT !.vel.X = b1.vel.X] >>
       ELSE << [b1 EXCEPT !.rect.X = b1.rect.X + overlapX \div 2, !.vel.X = b2.vel.X],
               [b2 EXCEPT !.vel.X = b1.vel.X] >>

\* A separation on X that moves each body by the whole overlap, not half of it.
SeparateXByWholeOverlap(b1, b2) ==
    LET overlapX == OverlapX(b1.rect, b2.rect)
    IN IF b1.rect.X < b2.rect.X
       THEN << [b1 EXCEPT !.rect.X = b1.rect.X - overlapX, !.vel.X = b2.vel.X],
               [b2 EXCEPT !.rect.X = b2.rect.X + overlapX, !.vel.X = b1.vel.X] >>
       ELSE << [b1 EXCEPT !.rect.X = b1.rect.X + overlapX, !.vel.X = b2.vel.X],
               [b2 EXCEPT !.rect.X = b2.rect.X - overlapX, !.vel.X = b1.vel.X] >>

\* Separate on X axis, then the velocity exchange on X.
SeparateX(b1, b2) ==
    LET overlapX == OverlapX(b1.rect, b2.rect)
    IN IF b1.rect.X < b2.rect.X
       THEN << [b1 EXCEPT !.rect.X = b1.rect.X - overlapX \div 2, !.vel.X = b2.vel.X],
               [b2 EXCEPT !.rect.X = b2.rect.X + overlapX \div 2, !.vel.X = b1.vel.X] >>
       ELSE << [b1 EXCEPT !.rect.X = b1.rect.X + overlapX \div 2, !.vel.X = b2.vel.X],
               [b2 EXCEPT !.rect.X = b2.rect.X - overlapX \div 2, !.vel.X = b1.vel.X] >>

\* Separate on Y axis, then the velocity exchange on Y.
SeparateY(b1, b2) ==
    LET overlapY == OverlapY(b1.rect, b2.rect)
    IN IF b1.rect.Y < b2.rect.Y
       THEN << [b1 EXCEPT !.rect.Y = b1.rect.Y - overlapY \div 2, !.vel.Y = b2.vel.Y],
               [b2 EXCEPT !.rect.Y = b2.rect.Y + overlapY \div 2, !.vel.Y = b1.vel.Y] >>
       ELSE << [b1 EXCEPT !.rect.Y = b1.rect.Y + overlapY \div 2, !.vel.Y = b2.vel.Y],
               [b2 EXCEPT !.rect.Y = b2.rect.Y - overlapY \div 2, !.vel.Y = b1.vel.Y] >>

\* A response that takes the X branch on equal overlaps as well.
RespondTieOnX(b1, b2) ==
    IF OverlapX(b1.rect, b2.rect) <= OverlapY(b1.rect, b2.rect)
    THEN SeparateX(Mark(b1), Mark(b2))
    ELSE SeparateY(Mark(b1), Mark(b2))

\* A response that exchanges the whole velocity, not one component.
RespondSwapsWholeVelocity(b1, b2) ==
    LET r == IF SeparateOnX(b1.rect, b2.rect)
             THEN SeparateX(Mark(b1), Mark(b2))
             ELSE SeparateY(Mark(b1), Mark(b2))
    IN << [r[1] EXCEPT !.vel = b2.vel], [r[2] EXCEPT !.vel = b1.vel] >>

\* The body of the confirmed branch, on the two entities' components:
\* <<first entity after, second entity after>>.
Respond(b1, b2) ==
    IF SeparateOnX(b1.rect, b2.rect)
    THEN SeparateX(Mark(b1), Mark(b2))
    ELSE SeparateY(Mark(b1), Mark(b2))

\* The sweep is at a Left / Right endpoint.
AtLeft == pc = "sweep" /\ k <= Len(intervals) /\ intervals[k].IsLeftEdge
AtRight == pc = "sweep" /\ k <= Len(intervals) /\ ~intervals[k].IsLeftEdge

\* A pair test that decides on the positions the bodies had at sort time.
PairTestFromSnapshot ==
    /\ AtLeft
    /\ i < activeLen
    /\ LET e1 == intervals[k].Entity
           e2 == activeList[i + 1]
           b1 == bodies[e1]
           b2 == bodies[e2]
       IN /\ tested' = Append(tested, <<e1, e2>>)
          /\ IF AABBOverlap(pre[e1].rect, pre[e2].rect)
             THEN /\ Halvable(b1.rect, b2.rect)
                  /\ bodies' = [bodies EXCEPT ![e1] = Respond(b1, b2)[1],
                                              ![e2] = Respond(b1, b2)[2]]
                  /\ confirmed' = Append(confirmed, <<e1, e2>>)
             ELSE UNCHANGED <<bodies, confirmed>>
    /\ i' = i + 1
    /\ UNCHANGED <<intervals, activeList, activeLen, pc, q, k, tick, pre, rand, flaggedBefore>>

\* One iteration of the loop over the active list.
PairTest ==
    /\ AtLeft
    /\ i < activeLen
    /\ LET e1 == intervals[k].Entity
           e2 == activeList[i + 1]
           b1 == bodies[e1]
           b2 == bodies[e2]
       IN /\ tested' = Append(tested, <<e1, e2>>)
          /\ IF AABBOverlap(b1.rect, b2.rect)
             THEN /\ Halvable(b1.rect, b2.rect)
                  /\ bodies' = [bodies EXCEPT ![e1] = Respond(b1, b2)[1],
                                              ![e2] = Respond(b1, b2)[2]]
                  /\ confirmed' = Append(confirmed, <<e1, e2>>)
             ELSE UNCHANGED <<bodies, confirmed>>
    /\ i' = i + 1
    /\ UNCHANGED <<intervals, activeList, activeLen, pc, q, k, tick, pre, rand, flaggedBefore>>

\* ---------------------------------------------- Update: the active list
\* Add to active list.
ActiveInsert ==
    /\ AtLeft
    /\ i >= activeLen
    /\ IF activeLen < Len(activeList)
       THEN /\ activeList' = [activeList EXCEPT ![activeLen + 1] = intervals[k].Entity]
            /\ activeLen' = activeLen + 1
       ELSE UNCHANGED <<activeList, activeLen>>
    /\ k' = k + 1
    /\ i' = 0
    /\ UNCHANGED <<bodies, intervals, pc, q, tick, tested, confirmed, pre, rand, flaggedBefore>>

\* The slots of the live prefix that hold entity e.
SlotsOf(e) == { s \in 1 .. activeLen : activeList[s] = e }

\* A removal that overwrites the slot but forgets g.activeLen--.
ActiveRemoveKeepsLen ==
    /\ AtRight
    /\ LET e == intervals[k].Entity
       IN IF SlotsOf(e) # {}
          THEN LET s == CHOOSE s \in SlotsOf(e) : \A t \in SlotsOf(e) : s <= t
               IN activeList' = [activeList EXCEPT ![s] = activeList[activeLen]]
          ELSE UNCHANGED activeList
    /\ k' = k + 1
    /\ UNCHANGED <<bodies, intervals, activeLen, pc, q, i, tick, tested, confirmed,
                   pre, rand, flaggedBefore>>

\* Remove from active list: the first matching slot takes the last live
\* entry and the prefix shrinks; no matching slot, no change.
ActiveRemove ==
    /\ AtRight
    /\ LET e == intervals[k].Entity
       IN IF SlotsOf(e) # {}
          THEN LET s == CHOOSE s \in SlotsOf(e) : \A t \in SlotsOf(e) : s <= t
               IN /\ activeList' = [activeList EXCEPT ![s] = activeList[activeLen]]
                  /\ activeLen' = activeLen - 1
          ELSE UNCHANGED <<activeList, activeLen>>
    /\ k' = k + 1
    /\ UNCHANGED <<bodies, intervals, pc, q, i, tick, tested, confirmed, pre, rand, flaggedBefore>>

\* ------------------------------------------------------ Update: return
UpdateReturn ==
    /\ pc = "sweep"
    /\ k > Len(intervals)
    /\ pc' = "idle"
    /\ tick' = tick + 1
    /\ UNCHANGED <<bodies, intervals, activeList, activeLen, q, k, i,
                   tested, confirmed, pre, rand, flaggedBefore>>

Next ==
    \/ UpdateBegin
    \/ BuildStep
    \/ SortIntervals
    \/ PairTest
    \/ ActiveInsert
    \/ ActiveRemove
    \/ UpdateReturn

Spec == Init /\ [][Next]_vars

\* ------------------------------------------- Update on a given world
\* Update applied to worlds given directly, not drawn by NewGame: 10x10
\* bodies on the top edge moving along X at unit speed (arguments in halves).
\* The first two are the bodies at (0,0) with velocity (1,0) and at (5,0)
\* with velocity (-1,0).
GivenEntity ==
    { Body(0, 0, 20, 20, 2, 0),
      Body(10, 0, 20, 20, -2, 0),
      Body(40, 0, 20, 20, -2, 0),
      Body(10, 60, 20, 20, -2, 0) }

InitGiven ==
    /\ bodies \in Batches(Objects, GivenEntity)
    /\ rand = GivenEntity \ { bodies[n] : n \in 1 .. Objects }
    /\ intervals = << >>
    /\ activeList = [s \in 1 .. MaxPossibleObject |-> NoEntity]
    /\ activeLen = 0
    /\ pc = "idle"
    /\ q = 1
    /\ k = 1
    /\ i = 0
    /\ tick = 0
    /\ tested = << >>
    /\ confirmed = << >>
    /\ pre = bodies
    /\ flaggedBefore = {}

SpecGiven == InitGiven /\ [][Next]_vars

\* ----------------------------------------------------- model soundness
TypeOK ==
    /\ pc \in {"idle", "build", "sort", "sweep"}
    /\ activeLen \in 0 .. MaxPossibleObject
    /\ Len(activeList) = MaxPossibleObject
    /\ tick \in 0 .. MaxTicks

\* No reachable halving needs more than FracBits binary places.
PrecisionSuffices ==
    (AtLeft /\ i < activeLen) =>
        LET r1 == bodies[intervals[k].Entity].rect
            r2 == bodies[activeList[i + 1]].rect
        IN AABBOverlap(r1, r2) => Halvable(r1, r2)

\* ------------------------------------------------------- observations
Last(s) == s[Len(s)]

\* The X-interval of entity e as emitted into the endpoint list.
EmittedLeft(e) ==
    (CHOOSE iv \in Range(intervals) : iv.Entity = e /\ iv.IsLeftEdge).Xaxis
EmittedRight(e) ==
    (CHOOSE iv \in Range(intervals) : iv.Entity = e /\ ~iv.IsLeftEdge).Xaxis

EmittedDisjoint(a, b) ==
    EmittedRight(a) < EmittedLeft(b) \/ EmittedRight(b) < EmittedLeft(a)

\* The emitted X-intervals share a segment of positive length.
EmittedOverlap(a, b) ==
    EmittedLeft(a) < EmittedRight(b) /\ EmittedLeft(b) < EmittedRight(a)

\* How often the unordered pair {a, b} was Y-tested in this tick.
TimesTested(a, b) ==
    Cardinality({ n \in DOMAIN tested : {tested[n][1], tested[n][2]} = {a, b} })

\* The sweep of the current tick has processed every endpoint.
SweepDone == pc = "idle" /\ tick >= 1 /\ Len(intervals) = 2 * Len(bodies)

\* Strict overlap of two rectangles on one axis.
StrictX(r1, r2) == r1.X < r2.X + r2.W /\ r2.X < r1.X + r1.W
StrictY(r1, r2) == r1.Y < r2.Y + r2.H /\ r2.Y < r1.Y + r1.H

\* This step is a narrow-phase test / a test that took the confirmed branch.
TestStep == Len(tested') = Len(tested) + 1
ConfirmStep == Len(confirmed') = Len(confirmed) + 1

\* --------------------------------------------------------------- claims

\* C1: the narrow-phase Y test is never executed for two bodies whose
\* emitted X-intervals are disjoint (one right edge strictly less than the
\* other left edge).
C1_DisjointNeverTested ==
    \A n \in DOMAIN tested : ~EmittedDisjoint(tested[n][1], tested[n][2])

\* C1 witness: a finished sweep over a pair with disjoint emitted
\* X-intervals, each body of which was Y-tested against some other body.
C1_Witness ==
    /\ SweepDone
    /\ \E a, b \in Entities :
         /\ EmittedRight(a) < EmittedLeft(b)
         /\ \E n \in DOMAIN tested : a \in {tested[n][1], tested[n][2]}
         /\ \E n \in DOMAIN tested : b \in {tested[n][1], tested[n][2]}

\* C2: at the end of the sweep every unordered pair whose emitted
\* X-intervals overlap with positive length has been Y-tested exactly once.
C2_OverlapTestedExactlyOnce ==
    SweepDone =>
        \A a, b \in Entities :
            (a < b /\ EmittedOverlap(a, b)) => TimesTested(a, b) = 1

InBounds(b) ==
    /\ 0 <= b.rect.X
    /\ b.rect.X + b.rect.W <= GameW
    /\ 0 <= b.rect.Y
    /\ b.rect.Y + b.rect.H <= GameH

\* C3: a body that handleScreenBoundaryCollision has just processed lies
\* inside the screen: 0 <= x, x+w <= width, 0 <= y, y+h <= height.
C3_ClampedInBounds ==
    pc \in {"build", "sort"} => \A e \in 1 .. (q - 1) : InBounds(bodies[e])

\* C3 witness: in a tick after the first, the clamp has pinned bodies to
\* each of the four edges.
C3_Witness ==
    /\ pc = "sort"
    /\ tick >= 1
    /\ \E e \in Entities : bodies[e].rect.X = 0
    /\ \E e \in Entities : bodies[e].rect.Y = 0
    /\ \E e \in Entities : bodies[e].rect.X + bodies[e].rect.W = GameW
    /\ \E e \in Entities : bodies[e].rect.Y + bodies[e].rect.H = GameH

\* C4: whenever the sweep sets the flags of a pair, the two rectangles as
\* they are at that moment overlap strictly on X and on Y; and every tested
\* pair that overlaps on both axes at that moment gets both flags set.
C4_FlagsIffOverlapOnBothAxes ==
    [][ /\ ConfirmStep =>
             LET p == Last(confirmed')
                 r1 == bodies[p[1]].rect
                 r2 == bodies[p[2]].rect
             IN StrictX(r1, r2) /\ StrictY(r1, r2)
        /\ TestStep =>
             LET p == Last(tested')
                 r1 == bodies[p[1]].rect
                 r2 == bodies[p[2]].rect
             IN (StrictX(r1, r2) /\ StrictY(r1, r2)) =>
                    /\ bodies'[p[1]].coll.IsColliding
                    /\ bodies'[p[2]].coll.IsColliding ]_vars

\* C5: with two bodies only, one's emitted right edge equal to the other's
\* emitted left edge, the sweep sets neither flag and changes neither
\* position nor velocity, whatever order the sort gave the equal endpoints.
C5_TouchingNotColliding ==
    ( /\ pc \in {"sweep", "idle"}
      /\ Len(bodies) = 2
      /\ Len(intervals) = 4
      /\ \E a, b \in Entities : a # b /\ EmittedRight(a) = EmittedLeft(b) )
    => \A e \in Entities :
          /\ ~bodies[e].coll.IsColliding
          /\ bodies[e].rect = pre[e].rect
          /\ bodies[e].vel = pre[e].vel

\* Overlap of two rectangles on one axis, min(hi) - max(lo).
AxisOverlapX(r1, r2) == Min(r1.X + r1.W, r2.X + r2.W) - Max(r1.X, r2.X)
AxisOverlapY(r1, r2) == Min(r1.Y + r1.H, r2.Y + r2.H) - Max(r1.Y, r2.Y)

\* What a step did to entities a and b, read off the two states: only the
\* X (Y) position and velocity of the two may differ, the two velocities on
\* that axis are exchanged.
OnlyXChanged(a, b) ==
    /\ \A e \in {a, b} :
         /\ bodies'[e].rect.Y = bodies[e].rect.Y
         /\ bodies'[e].vel.Y = bodies[e].vel.Y
         /\ bodies'[e].rect.W = bodies[e].rect.W
         /\ bodies'[e].rect.H = bodies[e].rect.H
    /\ bodies'[a].vel.X = bodies[b].vel.X
    /\ bodies'[b].vel.X = bodies[a].vel.X

OnlyYChanged(a, b) ==
    /\ \A e \in {a, b} :
         /\ bodies'[e].rect.X = bodies[e].rect.X
         /\ bodies'[e].vel.X = bodies[e].vel.X
         /\ bodies'[e].rect.W = bodies[e].rect.W
         /\ bodies'[e].rect.H = bodies[e].rect.H
    /\ bodies'[a].vel.Y = bodies[b].vel.Y
    /\ bodies'[b].vel.Y = bodies[a].vel.Y

\* The two were moved apart along X (Y) by half of amount each, in
\* opposite directions.
MovedOnX(a, b, amount) ==
    /\ 2 * Abs(bodies'[a].rect.X - bodies[a].rect.X) = Abs(amount)
    /\ bodies'[a].rect.X + bodies'[b].rect.X = bodies[a].rect.X + bodies[b].rect.X

MovedOnY(a, b, amount) ==
    /\ 2 * Abs(bodies'[a].rect.Y - bodies[a].rect.Y) = Abs(amount)
    /\ bodies'[a].rect.Y + bodies'[b].rect.Y = bodies[a].rect.Y + bodies[b].rect.Y

\* C6: after a pair that overlaps on both axes is resolved, the overlap of
\* the two on the axis of the smaller overlap is 0.
C6_SeparationLeavesNoOverlap ==
    [][ ConfirmStep =>
          LET p == Last(confirmed')
              r1 == bodies[p[1]].rect
              r2 == bodies[p[2]].rect
              s1 == bodies'[p[1]].rect
              s2 == bodies'[p[2]].rect
          IN (StrictX(r1, r2) /\ StrictY(r1, r2)) =>
                IF AxisOverlapX(r1, r2) < AxisOverlapY(r1, r2)
                THEN AxisOverlapX(s1, s2) = 0
                ELSE AxisOverlapY(s1, s2) = 0 ]_vars

\* C7: resolving a confirmed pair changes, besides the two flags, only the
\* two bodies' position and velocity on one axis, exchanging their velocity
\* components on that axis; the other axis, both sizes and every other body
\* are unchanged.
C7_ResponseFrame ==
    [][ ConfirmStep =>
          LET p == Last(confirmed')
          IN /\ \A e \in Entities \ {p[1], p[2]} : bodies'[e] = bodies[e]
             /\ OnlyXChanged(p[1], p[2]) \/ OnlyYChanged(p[1], p[2]) ]_vars

\* C7 witness: a pair has just been resolved among three or more bodies,
\* and the two differ from each other in both velocity components.
C7_Witness ==
    /\ pc = "sweep"
    /\ Len(bodies) >= 3
    /\ confirmed # << >>
    /\ Len(tested) >= 1 /\ Last(tested) = Last(confirmed)
    /\ LET p == Last(confirmed)
       IN /\ bodies[p[1]].vel.X # bodies[p[2]].vel.X
          /\ bodies[p[1]].vel.Y # bodies[p[2]].vel.Y

\* C8: the response is symmetric in its two arguments: resolving (a, b)
\* and resolving (b, a) leave a the same and leave b the same.
C8_ResponseSymmetric ==
    (AtLeft /\ i < activeLen) =>
        LET b1 == bodies[intervals[k].Entity]
            b2 == bodies[activeList[i + 1]]
        IN AABBOverlap(b1.rect, b2.rect) =>
              /\ Respond(b1, b2)[1] = Respond(b2, b1)[2]
              /\ Respond(b1, b2)[2] = Respond(b2, b1)[1]

\* C9 (as stated): a confirmed pair is separated and exchanges velocity on
\* X when overlapX <= overlapY (X wins the tie), on Y when overlapY < overlapX.
C9_TieSeparatesOnX ==
    [][ ConfirmStep =>
          LET p == Last(confirmed')
              ox == AxisOverlapX(bodies[p[1]].rect, bodies[p[2]].rect)
              oy == AxisOverlapY(bodies[p[1]].rect, bodies[p[2]].rect)
          IN IF ox <= oy
             THEN OnlyXChanged(p[1], p[2]) /\ MovedOnX(p[1], p[2], ox)
             ELSE OnlyYChanged(p[1], p[2]) /\ MovedOnY(p[1], p[2], oy) ]_vars

\* C9 (amended): a confirmed pair is separated and exchanges velocity on X
\* when overlapX < overlapY, and on Y when overlapY <= overlapX (Y wins the
\* tie).
C9_TieSeparatesOnY ==
    [][ ConfirmStep =>
          LET p == Last(confirmed')
              ox == AxisOverlapX(bodies[p[1]].rect, bodies[p[2]].rect)
              oy == AxisOverlapY(bodies[p[1]].rect, bodies[p[2]].rect)
          IN IF ox < oy
             THEN OnlyXChanged(p[1], p[2]) /\ MovedOnX(p[1], p[2], ox)
             ELSE OnlyYChanged(p[1], p[2]) /\ MovedOnY(p[1], p[2], oy) ]_vars

\* C9 witness: the first pair confirmed in a sweep had overlapX = overlapY
\* when it was tested, and its two bodies have been moved on Y.
C9_Witness ==
    /\ pc = "sweep"
    /\ Len(confirmed) = 1
    /\ LET p == confirmed[1]
       IN /\ AxisOverlapX(pre[p[1]].rect, pre[p[2]].rect)
               = AxisOverlapY(pre[p[1]].rect, pre[p[2]].rect)
          /\ bodies[p[1]].rect.Y # pre[p[1]].rect.Y
          /\ bodies[p[2]].rect.Y # pre[p[2]].rect.Y
          /\ bodies[p[1]].rect.X = pre[p[1]].rect.X

\* C10: whenever a Right endpoint is processed, its body is in the live
\* prefix of the active list, in exactly one slot.
C10_RightEndpointFindsMember ==
    AtRight => Cardinality(SlotsOf(intervals[k].Entity)) = 1

\* C11: when a Right endpoint finds no matching member in the active list,
\* the sweep does not go on to the next endpoint: Update stops there or
\* returns (with an error) instead of completing the sweep.
C11_MissingMemberStopsSweep ==
    [][ (AtRight /\ SlotsOf(intervals[k].Entity) = {}) =>
            ~(pc' = "sweep" /\ k' = k + 1) ]_vars

\* C12: a body whose Left endpoint is processed is in the live prefix of the
\* active list afterwards (the list grows when it is full), or the sweep does
\* not go on (a capacity-exceeded condition is reported).
C12_NeverSilentlyLeftOut ==
    [][ (AtLeft /\ i >= activeLen) =>
            \/ \E s \in 1 .. activeLen' : activeList'[s] = intervals[k].Entity
            \/ ~(pc' = "sweep" /\ k' = k + 1) ]_vars

\* The bodies, as they were when the intervals were sorted, are the two of
\* the worked example after their motion step: a at x = 1 with velocity
\* (1, 0), b at x = 4 with velocity (-1, 0), both 10x10 at y = 0.
ExampleAfterMotion(a, b) ==
    /\ Len(pre) = 2
    /\ pre[a].rect = [X |-> 2 * Hf, Y |-> 0, W |-> 20 * Hf, H |-> 20 * Hf]
    /\ pre[b].rect = [X |-> 8 * Hf, Y |-> 0, W |-> 20 * Hf, H |-> 20 * Hf]
    /\ pre[a].vel = [X |-> 2 * Hf, Y |-> 0]
    /\ pre[b].vel = [X |-> -2 * Hf, Y |-> 0]

\* C13: two 10x10 bodies, A at (0,0) with velocity (1,0) and B at (5,0) with
\* velocity (-1,0): the first tick ends with both flags true, A.x = -2.5,
\* B.x = 7.5, A.y = B.y = 0, A.vx = -1 and B.vx = 1.
C13_WorkedExample ==
    \A a, b \in Entities :
        (pc = "idle" /\ tick = 1 /\ Len(bodies) = 2 /\ ExampleAfterMotion(a, b)) =>
            /\ bodies[a].coll.IsColliding /\ bodies[b].coll.IsColliding
            /\ bodies[a].rect.X = -5 * Hf /\ bodies[b].rect.X = 15 * Hf
            /\ bodies[a].rect.Y = 0 /\ bodies[b].rect.Y = 0
            /\ bodies[a].vel.X = -2 * Hf /\ bodies[b].vel.X = 2 * Hf
            /\ bodies[a].vel.Y = 0 /\ bodies[b].vel.Y = 0

\* C13 witness: the first tick of the worked example has ended, its one pair
\* tested and confirmed, the later body's Left endpoint against the earlier.
C13_Witness ==
    \E a, b \in Entities :
        /\ pc = "idle" /\ tick = 1 /\ Len(bodies) = 2
        /\ ExampleAfterMotion(a, b)
        /\ tested = << <<b, a>> >>
        /\ confirmed = << <<b, a>> >>

\* C14: whenever the response computes overlapX and overlapY for a pair (the
\* Y test has succeeded), both are >= 0 and overlapY > 0, also when a body
\* of the pair was displaced by an earlier pair of the same tick.
C14_OverlapsNonNegative ==
    [][ ConfirmStep =>
            LET r1 == bodies[intervals[k].Entity].rect
                r2 == bodies[activeList[i + 1]].rect
            IN /\ OverlapX(r1, r2) >= 0
               /\ OverlapY(r1, r2) >= 0
               /\ OverlapY(r1, r2) > 0 ]_vars

\* The position of entity e's Left / Right endpoint in the sorted list.
LeftIndex(e) ==
    CHOOSE n \in DOMAIN intervals : intervals[n].Entity = e /\ intervals[n].IsLeftEdge
RightIndex(e) ==
    CHOOSE n \in DOMAIN intervals : intervals[n].Entity = e /\ ~intervals[n].IsLeftEdge

\* The bodies whose Left endpoint has been processed and whose Right endpoint
\* has not.
Open == { e \in Entities : LeftIndex(e) < k /\ RightIndex(e) >= k }

\* The content of the live prefix activeList[0..activeLen).
LivePrefix == { activeList[s] : s \in 1 .. activeLen }

\* C15: at every point of the sweep the live prefix of the active list holds,
\* without duplicates, exactly the bodies whose Left endpoint has been
\* processed and whose Right endpoint has not; it is empty when the sweep
\* starts and empty again when it has ended.
C15_LivePrefixIsOpenSet ==
    /\ pc = "sweep" => (LivePrefix = Open /\ Cardinality(LivePrefix) = activeLen)
    /\ (pc = "idle" /\ tick >= 1) => activeLen = 0

\* Entity e is in a pair confirmed in this tick.
InConfirmedPair(e) ==
    \E n \in DOMAIN confirmed : e = confirmed[n][1] \/ e = confirmed[n][2]

\* C16: a body's collision flag at the end of a tick is true only if a pair
\* containing the body was confirmed in that tick's sweep; a flag set in an
\* earlier tick does not carry over into a tick where the body is in no
\* confirmed pair.
C16_FlagOnlyFromThisTick ==
    (pc = "idle" /\ tick >= 1) =>
        \A e \in Entities : bodies[e].coll.IsColliding => InConfirmedPair(e)

\* C16 witness: a tick has ended in which a body that began it with its flag
\* set is in no confirmed pair and has its flag clear, while another body was
\* confirmed in a pair and has its flag set.
C16_Witness ==
    /\ pc = "idle" /\ tick >= 2
    /\ \E e \in flaggedBefore : ~InConfirmedPair(e) /\ ~bodies[e].coll.IsColliding
    /\ \E e \in Entities : InConfirmedPair(e) /\ bodies[e].coll.IsColliding

\* The endpoints of entity e in the endpoint list, by kind.
EndpointsOf(e, isLeft) ==
    { n \in DOMAIN intervals :
        intervals[n].Entity = e /\ intervals[n].IsLeftEdge = isLeft }

\* C17: the endpoint list handed to the sort holds exactly two endpoints per
\* body, one Left at the body's clamped x and one Right at x + w, Left <=
\* Right, and nothing left over from an earlier tick: its length is twice the
\* number of bodies.  This also holds in a tick that follows a spawn.
C17_TwoEndpointsPerBody ==
    pc = "sort" =>
        /\ Len(intervals) = 2 * Len(bodies)
        /\ \A e \in Entities :
             /\ Cardinality(EndpointsOf(e, TRUE)) = 1
             /\ Cardinality(EndpointsOf(e, FALSE)) = 1
             /\ \A n \in EndpointsOf(e, TRUE) :
                  intervals[n].Xaxis = bodies[e].rect.X
             /\ \A n \in EndpointsOf(e, FALSE) :
                  intervals[n].Xaxis = bodies[e].rect.X + bodies[e].rect.W
             /\ bodies[e].rect.X <= bodies[e].rect.X + bodies[e].rect.W
             /\ bodies[e] = handleScreenBoundaryCollision(bodies[e], GameW, GameH)

\* C17 witness: the endpoint list of a later tick is ready for the sort, the
\* tick follows a spawn, and a body was pinned to an edge by the clamp.
C17_Witness ==
    /\ pc = "sort" /\ tick >= 1
    /\ Len(bodies) > Objects
    /\ Len(intervals) = 2 * Len(bodies)
    /\ \E e \in Entities : bodies[e].rect.X = 0 \/ bodies[e].rect.X + bodies[e].rect.W = GameW

\* What the clamp is said to do on one axis: lo and len are the body's low
\* edge and extent before, v its velocity before; lo2 and v2 the same after.
AxisClamped(lo, len, v, bound, lo2, v2) ==
    IF lo <= 0
    THEN lo2 = 0 /\ v2 >= 0 /\ Abs(v2) = Abs(v)
    ELSE IF lo + len >= bound
         THEN lo2 + len = bound /\ v2 <= 0 /\ Abs(v2) = Abs(v)
         ELSE lo2 = lo /\ v2 = v

\* C18: handleScreenBoundaryCollision acts per axis: a low edge at or below 0
\* is pinned to 0 and the velocity on that axis becomes non-negative with the
\* same magnitude; a high edge at or beyond the bound is pinned to the bound
\* and the velocity becomes non-positive with the same magnitude; an axis on
\* which the body is strictly inside keeps position and velocity.
C18_ClampPerAxis ==
    [][ (pc = "build" /\ q' = q + 1) =>
            LET a == Advance(bodies[q])
                c == bodies'[q]
            IN /\ AxisClamped(a.rect.X, a.rect.W, a.vel.X, GameW, c.rect.X, c.vel.X)
               /\ AxisClamped(a.rect.Y, a.rect.H, a.vel.Y, GameH, c.rect.Y, c.vel.Y)
               /\ c.rect.W = a.rect.W /\ c.rect.H = a.rect.H ]_vars

\* C18 witness: in the first tick the clamp has pinned one body to the low
\* edges and turned its velocity around, pinned another to the high edges and
\* turned its velocity around, and left a third, strictly inside, as it was.
C18_Witness ==
    /\ pc = "sort" /\ tick = 0
    /\ \E e \in DOMAIN pre :
         /\ pre[e].vel.X < 0 /\ pre[e].vel.Y < 0
         /\ bodies[e].rect.X = 0 /\ bodies[e].rect.Y = 0
         /\ bodies[e].vel.X = -pre[e].vel.X /\ bodies[e].vel.Y = -pre[e].vel.Y
    /\ \E e \in DOMAIN pre :
         /\ pre[e].vel.X > 0 /\ pre[e].vel.Y > 0
         /\ bodies[e].rect.X + bodies[e].rect.W = GameW
         /\ bodies[e].rect.Y + bodies[e].rect.H = GameH
         /\ bodies[e].vel.X = -pre[e].vel.X /\ bodies[e].vel.Y = -pre[e].vel.Y
    /\ \E e \in Entities :
         /\ 0 < bodies[e].rect.X /\ bodies[e].rect.X + bodies[e].rect.W < GameW
         /\ 0 < bodies[e].rect.Y /\ bodies[e].rect.Y + bodies[e].rect.H < GameH

\* C19: positions are mutated in place during a sweep: the Y test and the
\* overlap computation of a pair use the two bodies' positions as they are
\* when the pair is tested, displacements by earlier pairs of the same tick
\* included, while the endpoint list stays as the sort left it.
C19_LaterTestsSeeDisplacement ==
    [][ /\ (pc = "sweep" /\ pc' = "sweep") => intervals' = intervals
        /\ TestStep =>
             LET e1 == intervals[k].Entity
                 e2 == activeList[i + 1]
                 r1 == bodies[e1].rect
                 r2 == bodies[e2].rect
                 dx == bodies'[e1].rect.X - r1.X
                 dy == bodies'[e1].rect.Y - r1.Y
             IN /\ ConfirmStep <=> AABBOverlap(r1, r2)
                /\ ConfirmStep =>
                     /\ bodies'[e2].rect.X = r2.X - dx
                     /\ bodies'[e2].rect.Y = r2.Y - dy
                     /\ \/ 2 * Abs(dx) = Abs(OverlapX(r1, r2)) /\ dy = 0
                        \/ 2 * Abs(dy) = Abs(OverlapY(r1, r2)) /\ dx = 0 ]_vars

\* C19 witness: the pair tested last holds a body that an earlier confirmed
\* pair of this tick displaced; on the positions of sort time the two overlap
\* on Y, on their present positions they do not, and the pair was not
\* confirmed.
C19_Witness ==
    /\ pc = "sweep" /\ Len(tested) >= 2
    /\ LET a == Last(tested)[1]
           b == Last(tested)[2]
       IN /\ \E n \in DOMAIN confirmed :
               {a, b} \cap {confirmed[n][1], confirmed[n][2]} # {}
          /\ \A n \in DOMAIN confirmed : confirmed[n] # Last(tested)
          /\ ~AABBOverlap(bodies[a].rect, bodies[b].rect)
          /\ AABBOverlap(pre[a].rect, pre[b].rect)

\* The sum of a sequence of numbers.
RECURSIVE Sum(_)
Sum(s) == IF s = << >> THEN 0 ELSE s[1] + Sum(Tail(s))

\* The sums over all bodies of x, y, vx, vy.
SumX(bs) == Sum([n \in DOMAIN bs |-> bs[n].rect.X])
SumY(bs) == Sum([n \in DOMAIN bs |-> bs[n].rect.Y])
SumVX(bs) == Sum([n \in DOMAIN bs |-> bs[n].vel.X])
SumVY(bs) == Sum([n \in DOMAIN bs |-> bs[n].vel.Y])

\* C20: from the sort to the end of the tick, whatever pairs have responded
\* and in whatever order, the sums over all bodies of x, of y, of vx and of
\* vy are what they were when the sweep began.
C20_SweepConservesSums ==
    (pc = "sweep" \/ (pc = "idle" /\ tick >= 1)) =>
        /\ SumX(bodies) = SumX(pre)
        /\ SumY(bodies) = SumY(pre)
        /\ SumVX(bodies) = SumVX(pre)
        /\ SumVY(bodies) = SumVY(pre)

\* C20 witness: a tick has ended whose sweep confirmed at least two pairs and
\* changed some body's x, some body's y, some body's vx and some body's vy.
C20_Witness ==
    /\ pc = "idle" /\ tick >= 1 /\ Len(confirmed) >= 2
    /\ \E e \in Entities : bodies[e].rect.X # pre[e].rect.X
    /\ \E e \in Entities : bodies[e].rect.Y # pre[e].rect.Y
    /\ \E e \in Entities : bodies[e].vel.X # pre[e].vel.X
    /\ \E e \in Entities : bodies[e].vel.Y # pre[e].vel.Y

====
